---- MODULE Spec2Model ----
(***************************************************************************)
(* Batch generation orchestrator of the legal-sample generator:           *)
(*   backend/services/batch_service.py   (BatchService, worker loop)      *)
(*   legal-dashboard/utils/circuit_breaker.py   (CircuitBreaker)          *)
(*   backend/services/sse_service.py     (SSEService)                     *)
(* Time is the wall clock time.time() in whole seconds.                   *)
(***************************************************************************)
EXTENDS Integers, Sequences, FiniteSets, TLC

VARIABLES
    now,              \* time.time() / datetime.now(), seconds
    circuits,         \* CircuitBreaker.circuits of a stand-alone breaker: topic -> circuit
    consecutive,      \* observation: record_failure calls on a topic since its last record_success
    half_open_successes, \* observation: record_success calls on a topic since it last became half-open
    enabled,          \* provider ids with 'enabled': True
    configured,       \* providers LLMProviderFactory.get_provider can build: enabled in the database, with an API key
    fallback_len,     \* number of models in a provider's fallback order
    generator,        \* behaviour of the Generator collaborator in this run
    dataset_count,    \* DataService.count(): samples in the dataset
    batch_history,    \* BatchHistory table: batch_id -> row
    active_batches,   \* BatchService._active_batches: batch_id -> batch_state
    worker,           \* locals of each _batch_worker thread: batch_id -> frame; final_broadcast
                      \* observes that the thread has broadcast a state that is not running
    breaker,          \* the CircuitBreaker each worker creates: batch_id -> (topic -> circuit)
    call_log,         \* observation: generator calls of the last 60 s, batch_id -> seq of <<provider, time>>
    starts_left,      \* start_batch calls the client will still issue
    start_result,     \* the last start_batch call: its arguments and return value
    stop_result,      \* the last stop_batch / stop_all_batches call: its batch_id and return value
    stuck_result,     \* batch ids in 'stopped_batches' of the last check_stuck_batches call
    subscribers,      \* SSEService.subscribers: the list of subscriber queues
    queues,           \* the queue.Queue objects created so far: id -> [len, maxsize]
    publish,          \* frame of the thread inside broadcast_batch_update
    batch_lock,       \* BatchService._batch_lock: the thread that holds it, or 0
    threads           \* request and worker threads: id -> [op, pos], the method and the step it is at

vars == <<now, circuits, consecutive, half_open_successes, enabled, configured, fallback_len,
          generator, dataset_count, batch_history,
          active_batches, worker, breaker, call_log, starts_left, start_result, stop_result,
          stuck_result, subscribers, queues, publish, batch_lock, threads>>

\* the subscriber list is empty wherever jobs run in this model, and a broadcast to
\* an empty list changes nothing: the steps of a job leave these variables alone
sseVars == <<subscribers, queues, publish>>
\* the lock regions of the steps of a job lie within one step each; the lock itself
\* is followed in SpecLock
lockVars == <<batch_lock, threads>>
cbVars == <<circuits, consecutive, half_open_successes>>
jobVars == <<enabled, configured, fallback_len, generator, dataset_count, batch_history,
             active_batches, worker,
             breaker, call_log, starts_left, start_result, stop_result, stuck_result>>

----------------------------------------------------------------------------
(* Program constants                                                       *)

MAX_SAMPLE_RETRIES == 3
MAX_BATCH_TIMEOUT == 7200
CIRCUIT_BREAKER_FAILURE_THRESHOLD == 3
CIRCUIT_BREAKER_RECOVERY_TIMEOUT == 300
CIRCUIT_BREAKER_SUCCESS_THRESHOLD == 2
RATE_WINDOW == 60
RETRY_BACKOFF == 2
SWITCH_AFTER_FAILURES == 5
PROVIDER_GIVE_UP == 3
SAVE_EVERY == 10
SAFETY_FACTOR == 3
STUCK_THRESHOLD_MINUTES == 60
ABSOLUTE_STUCK_MINUTES == 120
MAX_MODEL_SWITCHES == 25

(* Bounds of the model                                                     *)

NumTopics == 2          \* topics in TOPICS
NumModels == 2          \* models in a provider's fallback order
MaxProviders == 3       \* enabled providers
MaxTarget == 1          \* largest target_count a client asks for (one more in SpecScenario)
MaxFailureCount == 5    \* cap of failure_count in the stand-alone breaker
MaxTicks == 2           \* clock advances in the stand-alone breaker
RequestsPerMinute == 2  \* requests_per_minute of every provider
ScenarioTarget == 5      \* target_count of the job in SpecFive
NumThreads == 3         \* request and worker threads that run at the same time
NumSubscribers == 3     \* queue.Queue objects the stream clients create
MaxQueued == 2          \* messages followed in an unbounded queue
MaxRecords == 26        \* entries of a record list, and value of a failure counter, followed per job

None == -1              \* Python None for times and counters

Topics == 1..NumTopics
Threads == 1..NumThreads

\* a counter that is followed up to MaxRecords: the code compares its counters
\* with thresholds far below
Capped(n) == IF n < MaxRecords THEN n ELSE MaxRecords

\* list.append on a list of which the first MaxRecords entries are followed: the
\* code appends to these lists and never reads them
Record(log, e) == IF Len(log) < MaxRecords THEN Append(log, e) ELSE log

----------------------------------------------------------------------------
(* CircuitBreaker                                                          *)

\* Python truthiness of an Optional[float]
Truthy(x) == x # None /\ x # 0

\* last_failure_time is written and never read: it is left out of the circuit
get_state == [state |-> "closed", failure_count |-> 0, success_count |-> 0,
              opened_at |-> None]

\* a breaker that waits one second longer than the recovery timeout
is_open_late(c, t) ==
    IF c.state = "closed" THEN <<FALSE, c>>
    ELSE IF c.state = "open" THEN
        IF Truthy(c.opened_at) /\ t - c.opened_at > CIRCUIT_BREAKER_RECOVERY_TIMEOUT
        THEN <<FALSE, [c EXCEPT !.state = "half_open", !.success_count = 0]>>
        ELSE <<TRUE, c>>
    ELSE <<FALSE, c>>

\* is_open: <<return value, circuit afterwards>>
is_open(c, t) ==
    IF c.state = "closed" THEN <<FALSE, c>>
    ELSE IF c.state = "open" THEN
        IF Truthy(c.opened_at) /\ t - c.opened_at >= CIRCUIT_BREAKER_RECOVERY_TIMEOUT
        THEN <<FALSE, [c EXCEPT !.state = "half_open", !.success_count = 0]>>
        ELSE <<TRUE, c>>
    ELSE <<FALSE, c>>

\* a breaker that closes on the first success of a recovery test
record_success_early(c) ==
    LET c1 == [c EXCEPT !.failure_count = 0] IN
    IF c1.state \in {"half_open", "open"} THEN [c1 EXCEPT !.state = "closed", !.opened_at = None]
    ELSE c1

record_success(c) ==
    LET c1 == [c EXCEPT !.failure_count = 0] IN
    IF c1.state = "half_open" THEN
        LET c2 == [c1 EXCEPT !.success_count = @ + 1] IN
        IF c2.success_count >= CIRCUIT_BREAKER_SUCCESS_THRESHOLD
        THEN [c2 EXCEPT !.state = "closed", !.opened_at = None]
        ELSE c2
    ELSE IF c1.state = "open" THEN [c1 EXCEPT !.state = "closed", !.opened_at = None]
    ELSE c1

record_failure_late(c, t) ==
    LET c1 == [c EXCEPT !.failure_count = Capped(@ + 1), !.success_count = 0] IN
    IF c1.state = "half_open" THEN [c1 EXCEPT !.state = "open", !.opened_at = t]
    ELSE IF c1.failure_count > CIRCUIT_BREAKER_FAILURE_THRESHOLD
    THEN [c1 EXCEPT !.state = "open", !.opened_at = t]
    ELSE c1

record_failure(c, t) ==
    LET c1 == [c EXCEPT !.failure_count = Capped(@ + 1), !.success_count = 0] IN
    IF c1.state = "half_open" THEN [c1 EXCEPT !.state = "open", !.opened_at = t]
    ELSE IF c1.failure_count >= CIRCUIT_BREAKER_FAILURE_THRESHOLD
    THEN [c1 EXCEPT !.state = "open", !.opened_at = t]
    ELSE c1

----------------------------------------------------------------------------
(* A stand-alone breaker driven by arbitrary calls: specification SpecCB   *)

TickSteps == {CIRCUIT_BREAKER_RECOVERY_TIMEOUT - 1, CIRCUIT_BREAKER_RECOVERY_TIMEOUT}

CBIsOpen(k) ==
    /\ circuits' = [circuits EXCEPT ![k] = is_open(circuits[k], now)[2]]
    /\ half_open_successes' = [half_open_successes EXCEPT ![k] =
           IF circuits[k].state = "open" /\ circuits'[k].state = "half_open" THEN 0 ELSE @]
    /\ UNCHANGED <<now, consecutive, jobVars, sseVars, lockVars>>

CBRecordSuccess(k) ==
    /\ circuits' = [circuits EXCEPT ![k] = record_success(circuits[k])]
    /\ consecutive' = [consecutive EXCEPT ![k] = 0]
    /\ half_open_successes' = [half_open_successes EXCEPT ![k] =
           IF circuits[k].state = "half_open" THEN @ + 1 ELSE @]
    /\ UNCHANGED <<now, jobVars, sseVars, lockVars>>

CBRecordFailure(k) ==
    /\ circuits[k].failure_count < MaxFailureCount
    /\ circuits' = [circuits EXCEPT ![k] = record_failure(circuits[k], now)]
    /\ consecutive' = [consecutive EXCEPT ![k] = @ + 1]
    /\ UNCHANGED <<now, half_open_successes, jobVars, sseVars, lockVars>>

CBTick(d) ==
    /\ now + d <= 1 + MaxTicks * CIRCUIT_BREAKER_RECOVERY_TIMEOUT
    /\ now' = now + d
    /\ UNCHANGED <<cbVars, jobVars, sseVars, lockVars>>

InitCommon ==
    /\ now = 1
    /\ circuits = [k \in Topics |-> get_state]
    /\ consecutive = [k \in Topics |-> 0]
    /\ half_open_successes = [k \in Topics |-> 0]
    /\ dataset_count = 0
    /\ active_batches = <<>>
    /\ worker = <<>>
    /\ breaker = <<>>
    /\ call_log = <<>>
    /\ stop_result = [batch_id |-> None, success |-> FALSE, stopped |-> {}]
    /\ stuck_result = {}
    /\ subscribers = <<>>
    /\ queues = <<>>
    /\ batch_lock = 0
    /\ threads = [t \in Threads |-> [op |-> "idle", pos |-> 1]]
    /\ publish = [pc |-> "idle", i |-> 0, active_subscribers |-> <<>>,
                  delivered |-> {}, failed |-> {}]
    /\ start_result = [target_count |-> None, provider |-> "None", model |-> None,
                       smart_mode |-> FALSE, success |-> FALSE, batch_id |-> None,
                       error |-> ""]

InitCB ==
    /\ InitCommon
    /\ fallback_len = NumModels
    /\ batch_history = <<>>
    /\ enabled = {}
    /\ configured = enabled
    /\ generator = "any"
    /\ starts_left = 0

NextCB ==
    \/ \E k \in Topics : CBIsOpen(k)
    \/ \E k \in Topics : CBRecordSuccess(k)
    \/ \E k \in Topics : CBRecordFailure(k)
    \/ \E d \in TickSteps : CBTick(d)

SpecCB == InitCB /\ [][NextCB]_vars

----------------------------------------------------------------------------
\* C10: a closed circuit opens at exactly the record_failure call that brings the
\* number of consecutive failures since the last success to the failure threshold,
\* and at no other step.
C10_OpensExactlyAtThreshold ==
    [][\A k \in Topics :
          circuits[k].state = "closed" =>
             ( circuits'[k].state = "open"
               <=> ( consecutive'[k] = consecutive[k] + 1
                     /\ consecutive'[k] = CIRCUIT_BREAKER_FAILURE_THRESHOLD ) )]_vars

C10_Witness ==
    \E k \in Topics :
        /\ circuits[k].state = "open"
        /\ consecutive[k] = CIRCUIT_BREAKER_FAILURE_THRESHOLD
        /\ circuits[k].failure_count = CIRCUIT_BREAKER_FAILURE_THRESHOLD

\* C11: a half-open circuit goes back to open, with opened_at set to the time of the
\* call, on the first record_failure, and it closes at exactly the record_success
\* call that is the CIRCUIT_BREAKER_SUCCESS_THRESHOLD-th since it became half-open.
C11_HalfOpenTransitions ==
    [][\A k \in Topics :
          circuits[k].state = "half_open" =>
             /\ consecutive'[k] = consecutive[k] + 1 =>
                    circuits'[k].state = "open" /\ circuits'[k].opened_at = now
             /\ circuits'[k].state = "open" => consecutive'[k] = consecutive[k] + 1
             /\ circuits'[k].state = "closed" <=>
                    ( half_open_successes'[k] = half_open_successes[k] + 1
                      /\ half_open_successes'[k] = CIRCUIT_BREAKER_SUCCESS_THRESHOLD )]_vars

\* a circuit closed by its second success of a recovery test, and one that a failure
\* of the test opened again
C11_Witness ==
    /\ \E k \in Topics :
          /\ circuits[k].state = "closed"
          /\ half_open_successes[k] = CIRCUIT_BREAKER_SUCCESS_THRESHOLD
    /\ \E k \in Topics :
          /\ circuits[k].state = "open"
          /\ circuits[k].failure_count < CIRCUIT_BREAKER_FAILURE_THRESHOLD
          /\ circuits[k].opened_at = now

\* C12: for an open circuit is_open answers true while now - opened_at is below the
\* recovery timeout; from then on a call of is_open answers false and leaves the
\* circuit half-open with success_count 0; an open circuit becomes half-open only
\* in such a call, and the passing of time changes no circuit.
C12_RecoveryOnlyOnQuery ==
    [][\A k \in Topics :
          circuits[k].state = "open" =>
             LET due == now - circuits[k].opened_at >= CIRCUIT_BREAKER_RECOVERY_TIMEOUT
                 ans == is_open(circuits[k], now)
             IN  /\ ans[1] = ~due
                 /\ ~due => ans[2] = circuits[k]
                 /\ due => ans[2] = [circuits[k] EXCEPT !.state = "half_open",
                                                         !.success_count = 0]
                 /\ circuits'[k].state = "half_open" =>
                        due /\ now' = now /\ circuits'[k] = ans[2]
                 /\ now' # now => circuits'[k] = circuits[k]]_vars

\* a circuit that is_open moved to half-open at the very second the timeout was over
C12_Witness ==
    \E k \in Topics :
        /\ circuits[k].state = "half_open"
        /\ circuits[k].success_count = 0
        /\ now - circuits[k].opened_at = CIRCUIT_BREAKER_RECOVERY_TIMEOUT

----------------------------------------------------------------------------
(* Provider configuration and the failover helpers of BatchService         *)

priority_order == <<"cerebras", "mistral", "google", "groq", "ollama">>
ProviderIds == {priority_order[i] : i \in 1..Len(priority_order)}
NoProvider == "None"

\* a provider's get_fallback_order(): its models, best first
get_fallback_order(p) == [i \in 1..fallback_len |-> i]
\* a model name a caller may pass that no fallback order holds
CustomModel == 0
champion_model(p) == get_fallback_order(p)[1]

\* requests_per_minute of get_rate_limits(p)
get_rate_limits(p) == RequestsPerMinute

Range(s) == {s[i] : i \in 1..Len(s)}

\* the first provider of priority_order that is in the set ps, or None
FirstByPriority(ps) ==
    LET idx == {i \in 1..Len(priority_order) : priority_order[i] \in ps} IN
    IF idx = {} THEN NoProvider
    ELSE priority_order[CHOOSE i \in idx : \A j \in idx : i <= j]

_select_best_provider ==
    IF enabled # {} THEN FirstByPriority(enabled) ELSE "groq"

\* an error text is represented by the keyword it contains
RateLimitKeywords == {"rate limit", "rate_limit", "429", "too many requests"}
ModelKeywords == {"model_unavailable", "model not found", "invalid model"}
AuthKeywords == {"authentication", "api key", "unauthorized", "401", "403"}
ErrorTexts == {"429", "invalid model", "401", "timeout", "validation failed"}

_should_switch_provider(error, bs) ==
    \/ error \in RateLimitKeywords
    \/ error \in ModelKeywords
    \/ error \in AuthKeywords
    \/ bs.consecutive_failures >= SWITCH_AFTER_FAILURES

_has_more_models(p, bs) ==
    IF p \notin configured THEN FALSE
    ELSE Len(bs.tried_models_by_provider[p]) < Len(get_fallback_order(p))

\* <<model or None, tried_models_by_provider afterwards>>
_get_next_model_for_provider(p, bs) ==
    LET tried == bs.tried_models_by_provider[p]
        order == get_fallback_order(p)
        untried == {i \in 1..Len(order) : order[i] \notin Range(tried)}
    IN  IF p \notin configured THEN <<champion_model(p), bs.tried_models_by_provider>>
        ELSE IF untried = {} THEN <<None, bs.tried_models_by_provider>>
        ELSE LET m == order[CHOOSE i \in untried : \A j \in untried : i <= j]
             IN <<m, [bs.tried_models_by_provider EXCEPT ![p] = Append(tried, m)]>>

\* <<next provider or None, provider_failures afterwards>>
_switch_to_next_provider(current, bs) ==
    LET pf == [bs.provider_failures EXCEPT ![current] = Capped(@ + 1)]
        all_providers_failed == \A p \in enabled : pf[p] > 0
        others == enabled \ {current}
        remaining == IF others = {} THEN enabled ELSE others
    IN  IF all_providers_failed /\ ~(pf[current] < PROVIDER_GIVE_UP)
        THEN <<NoProvider, pf>>
        ELSE <<FirstByPriority(remaining), pf>>

\* a save that writes 'stopped' for every batch state that is not running
_save_batch_to_db_stopped(table, id, bs) ==
    LET row == [started_at |-> bs.started_at,
                completed_at |-> bs.completed_at,
                samples_generated |-> bs.samples_generated,
                status |-> IF bs.running THEN "running" ELSE "stopped",
                errors |-> bs.errors]
    IN  IF id \in DOMAIN table THEN [table EXCEPT ![id] = row] ELSE table @@ (id :> row)

\* _save_batch_to_db: the BatchHistory table afterwards
_save_batch_to_db(table, id, bs) ==
    IF id \in DOMAIN table
    THEN [table EXCEPT ![id] = [@ EXCEPT
              !.completed_at = bs.completed_at,
              !.samples_generated = bs.samples_generated,
              !.status = IF bs.running THEN "running" ELSE "completed",
              !.errors = bs.errors]]
    ELSE table @@ (id :> [started_at |-> bs.started_at,
                          completed_at |-> bs.completed_at,
                          samples_generated |-> bs.samples_generated,
                          status |-> IF bs.running THEN "running" ELSE "stopped",
                          errors |-> bs.errors])

create_batch_state(provider, model, total, t) ==
    [running |-> TRUE, total |-> total,
     current_provider |-> provider, current_model |-> model,
     errors |-> <<>>, started_at |-> t, completed_at |-> None,
     samples_generated |-> 0,
     model_switches |-> <<>>, provider_switches |-> <<>>,
     failed_models_by_provider |-> {provider},
     consecutive_failures |-> 0, skipped_topics |-> {}]

----------------------------------------------------------------------------
(* BatchService: start_batch and the worker thread _batch_worker           *)

\* The Generator collaborator of a run is one of:
\*   "any"            any answer to any call, at once
\*   "slow"           any answer, RECOVERY_TIMEOUT seconds after the call
\*   "ok"             every call succeeds
\*   "fail_all"       every call fails with a rate-limit error
\*   "first_limited"  rate-limit errors on the job's first provider, success elsewhere
\*   "stalled"        any answer, more than an hour after the call
\*   "unauthorized"   every call fails with an authentication error
GeneratorKinds == {"any", "slow", "ok", "fail_all", "first_limited", "stalled", "unauthorized"}

BatchIds == DOMAIN active_batches
\* an id built from the clock second alone
SecondBatchId == now

\* line 124: 'batch_<clock second>_<first 8 hex digits of a uuid4>'; the uuid part
\* is taken to differ from the part of every id drawn before
NextBatchId == Cardinality(DOMAIN active_batches) + 1

filtered_topics(bs) ==
    IF bs.topic_filter # None THEN <<bs.topic_filter>>
    ELSE [i \in 1..NumTopics |-> i]

\* topic_cycle[iteration % len(topic_cycle)]: the cycle repeats filtered_topics
topic_key(bs, iteration) ==
    filtered_topics(bs)[(iteration % Len(filtered_topics(bs))) + 1]

request_delay(w) == RATE_WINDOW \div w.requests_per_minute

\* a test that lets a target equal to the current count through
target_already_met_strict(samples_needed) == samples_needed < 0

\* line 105: nothing is left to generate
target_already_met(samples_needed) == samples_needed <= 0

\* lines 82-163
start_batch(target_count, provider_in, model_in, smart_mode, topic_filter) ==
    /\ starts_left > 0
    /\ starts_left' = starts_left - 1
    /\ LET samples_needed == target_count - dataset_count
           provider == IF smart_mode /\ provider_in = "auto"
                       THEN _select_best_provider ELSE provider_in
           model == IF model_in = None /\ provider \in ProviderIds
                    THEN champion_model(provider) ELSE model_in
           id == NextBatchId
           bs == create_batch_state(provider, model, samples_needed, now) @@
                 [topic_filter |-> topic_filter, smart_mode |-> smart_mode,
                  provider_failures |-> [p \in ProviderIds |-> 0],
                  tried_models_by_provider |->
                      [p \in ProviderIds |-> IF p = provider THEN <<model>> ELSE <<>>]]
       IN  IF target_already_met(samples_needed)
           THEN /\ start_result' = [target_count |-> target_count, provider |-> provider_in,
                                     model |-> model_in, smart_mode |-> smart_mode,
                                     success |-> FALSE,
                                     batch_id |-> None, error |-> "Target already met"]
                /\ UNCHANGED <<active_batches, batch_history, worker, breaker, call_log>>
           ELSE /\ start_result' = [target_count |-> target_count, provider |-> provider_in,
                                     model |-> model_in, smart_mode |-> smart_mode,
                                     success |-> TRUE,
                                     batch_id |-> id, error |-> ""]
                /\ active_batches' = active_batches @@ (id :> bs)
                /\ batch_history' = _save_batch_to_db(batch_history, id, bs)
                /\ worker' = worker @@ (id :>
                      [pc |-> "start", target_count |-> target_count,
                       provider |-> provider, model |-> model,
                       requests_per_minute |-> 0, current_count |-> 0,
                       samples_needed |-> 0, iteration |-> 0, sample_retries |-> 0,
                       minute_start |-> 0, minute_requests |-> 0,
                       batch_start_time |-> 0, final_broadcast |-> FALSE])
                /\ breaker' = breaker @@ (id :> [k \in Topics |-> get_state])
                /\ call_log' = call_log @@ (id :> <<>>)
    /\ UNCHANGED <<now, cbVars, sseVars, lockVars, enabled, configured, fallback_len, generator, dataset_count, stop_result,
                   stuck_result>>

\* one breaker that every worker uses: the one of the oldest job
shared_breaker(b) == CHOOSE a \in DOMAIN breaker : \A c \in DOMAIN breaker : a <= c

\* line 483, circuit_breaker.py 44-47: the CircuitBreaker instance worker b works
\* with is the one it created; 'circuits' is an attribute of the instance
own_breaker(b) == b

\* lines 465-512: the worker's set-up
WorkerInit(b) ==
    /\ worker[b].pc = "start"
    /\ worker' = [worker EXCEPT ![b] = [@ EXCEPT
           !.pc = "loop",
           !.requests_per_minute = get_rate_limits(worker[b].provider),
           !.current_count = dataset_count,
           !.samples_needed = worker[b].target_count - dataset_count,
           !.minute_start = now, !.minute_requests = 0,
           !.batch_start_time = now, !.iteration = 0]]
    /\ breaker' = [breaker EXCEPT ![own_breaker(b)] = [k \in Topics |-> get_state]]
    /\ UNCHANGED <<now, cbVars, sseVars, lockVars, enabled, configured, fallback_len, generator, dataset_count, batch_history,
                   active_batches, call_log, starts_left, start_result, stop_result, stuck_result>>

\* lines 515-567: the head of one iteration of the main loop, up to the retry loop
LoopTop(b) ==
    /\ worker[b].pc = "loop"
    /\ LET w == worker[b]
           bs == active_batches[b]
           topic == topic_key(bs, w.iteration)
           chk == is_open(breaker[own_breaker(b)][topic], now)
           elapsed_minute == now - w.minute_start
       IN
       IF ~(bs.samples_generated < w.samples_needed
            /\ w.iteration < w.samples_needed * SAFETY_FACTOR)
       THEN /\ worker' = [worker EXCEPT ![b].pc = "final"]
            /\ UNCHANGED <<now, active_batches, breaker>>
       ELSE IF ~bs.running
       THEN /\ worker' = [worker EXCEPT ![b].pc = "final"]
            /\ UNCHANGED <<now, active_batches, breaker>>
       ELSE IF now - w.batch_start_time > MAX_BATCH_TIMEOUT
       THEN /\ active_batches' = [active_batches EXCEPT ![b] = [@ EXCEPT
                   !.errors = Append(@, "timeout"), !.running = FALSE]]
            /\ worker' = [worker EXCEPT ![b].pc = "final"]
            /\ UNCHANGED <<now, breaker>>
       ELSE IF chk[1]
       THEN /\ active_batches' = [active_batches EXCEPT
                   ![b].skipped_topics = @ \cup {topic}]
            /\ worker' = [worker EXCEPT ![b].iteration = @ + 1]
            /\ UNCHANGED <<now, breaker>>
       ELSE /\ breaker' = [breaker EXCEPT ![own_breaker(b)][topic] = chk[2]]
            /\ UNCHANGED active_batches
            /\ IF elapsed_minute < RATE_WINDOW /\ w.minute_requests >= w.requests_per_minute
               THEN /\ now' = now + (RATE_WINDOW - elapsed_minute)
                    /\ worker' = [worker EXCEPT ![b] = [@ EXCEPT
                          !.pc = "call", !.sample_retries = 0,
                          !.minute_start = now', !.minute_requests = 0]]
               ELSE IF elapsed_minute >= RATE_WINDOW
               THEN /\ now' = now
                    /\ worker' = [worker EXCEPT ![b] = [@ EXCEPT
                          !.pc = "call", !.sample_retries = 0,
                          !.minute_start = now, !.minute_requests = 0]]
               ELSE /\ now' = now
                    /\ worker' = [worker EXCEPT ![b] = [@ EXCEPT
                          !.pc = "call", !.sample_retries = 0]]
    /\ UNCHANGED <<cbVars, sseVars, lockVars, enabled, configured, fallback_len, generator, dataset_count, batch_history,
                   call_log, starts_left, start_result, stop_result, stuck_result>>

\* line 570: generate_single_sample is called with the worker's provider and model
GenCall(b) ==
    /\ worker[b].pc \in {"call", "retry"}
    /\ worker' = [worker EXCEPT ![b].pc = "inflight"]
    /\ call_log' = [call_log EXCEPT ![b] =
           Record(SelectSeq(@, LAMBDA e : e[2] > now - RATE_WINDOW),
                  <<worker[b].provider, now>>)]
    /\ UNCHANGED <<now, cbVars, sseVars, lockVars, enabled, configured, fallback_len, generator, dataset_count, batch_history,
                   active_batches, breaker, starts_left, start_result, stop_result, stuck_result>>

\* lines 597-697: what the failure branch does to the batch state and the worker's
\* locals; exit is how the branch leaves: "continue", "break" or "fall" (through to
\* the back-off at line 699)
handle_failure(bs0, w0, error, t) ==
    LET w1 == [w0 EXCEPT !.sample_retries = @ + 1]
        bs1 == [bs0 EXCEPT !.consecutive_failures = @ + 1]
        nm == _get_next_model_for_provider(w1.provider, bs1)
        sw == _switch_to_next_provider(w1.provider, bs1)
        bs2 == [bs1 EXCEPT !.provider_failures = sw[2]]
        np == _get_next_model_for_provider(sw[1], bs2)
    IN
    IF ~(bs1.smart_mode /\ _should_switch_provider(error, bs1))
    THEN [bs |-> bs1, w |-> w1, exit |-> "fall", save |-> FALSE]
    ELSE IF _has_more_models(w1.provider, bs1) /\ nm[1] # None
    THEN [bs |-> [bs1 EXCEPT !.tried_models_by_provider = nm[2],
                             !.current_model = nm[1],
                             !.model_switches = Record(@, <<w1.provider, nm[1]>>),
                             !.consecutive_failures = 0],
          w |-> [w1 EXCEPT !.model = nm[1], !.sample_retries = 0],
          exit |-> "continue", save |-> FALSE]
    ELSE IF sw[1] = NoProvider
    THEN [bs |-> [bs2 EXCEPT !.running = FALSE, !.completed_at = t,
                             !.errors = Append(@, "exhausted")],
          w |-> [w1 EXCEPT !.final_broadcast = TRUE], exit |-> "break", save |-> TRUE]
    ELSE IF sw[1] = w1.provider
    THEN [bs |-> bs2, w |-> w1, exit |-> "fall", save |-> FALSE]
    ELSE IF np[1] = None
    THEN [bs |-> bs2, w |-> [w1 EXCEPT !.provider = sw[1], !.model = None],
          exit |-> "continue", save |-> FALSE]
    ELSE [bs |-> [bs2 EXCEPT !.tried_models_by_provider = np[2],
                             !.current_provider = sw[1],
                             !.current_model = np[1],
                             !.provider_switches = Record(@, sw[1]),
                             !.consecutive_failures = 0],
          w |-> [w1 EXCEPT !.provider = sw[1], !.model = np[1],
                           !.requests_per_minute = get_rate_limits(sw[1]),
                           !.minute_start = t, !.minute_requests = 0,
                           !.sample_retries = 0],
          exit |-> "continue", save |-> FALSE]

\* what the generator may answer to a call of worker frame w
GeneratorAnswers(w, bs) ==
    CASE w.provider \notin configured -> {"api key"}
      [] generator = "ok" -> {"ok"}
      [] generator = "fail_all" -> {"429"}
      [] generator = "unauthorized" -> {"401"}
      [] generator = "first_limited" ->
            IF w.provider \in bs.failed_models_by_provider THEN {"429"} ELSE {"ok"}
      [] OTHER -> {"ok"} \cup ErrorTexts

\* elapsed seconds of a generator call
GeneratorDuration ==
    CASE generator = "slow" -> CIRCUIT_BREAKER_RECOVERY_TIMEOUT
      [] generator = "stalled" -> STUCK_THRESHOLD_MINUTES * 60 + 1
      [] OTHER -> 0

\* lines 570-708: the call returns after d seconds; the worker handles the answer up
\* to the next call of the retry loop, the end of the iteration, or, with a sample,
\* its entry into data_service.add_bulk
GenReturn(b, answer) ==
    /\ worker[b].pc = "inflight"
    /\ answer \in GeneratorAnswers(worker[b], active_batches[b])
    /\ LET t == now + GeneratorDuration
           w0 == worker[b]
           bs0 == active_batches[b]
           topic == topic_key(bs0, w0.iteration)
           f == handle_failure(bs0, w0, answer, t)
           ok == answer = "ok"
           bs1 == IF ok THEN [bs0 EXCEPT !.samples_generated = @ + 1,
                                         !.consecutive_failures = 0]
                  ELSE f.bs
           w1 == IF ok THEN [w0 EXCEPT !.minute_requests = @ + 1] ELSE f.w
           table1 == IF ~ok /\ f.save THEN _save_batch_to_db(batch_history, b, bs1)
                     ELSE batch_history
           \* line 699: the back-off
           t2 == IF ~ok /\ f.exit = "fall" /\ w1.sample_retries < MAX_SAMPLE_RETRIES
                 THEN t + RETRY_BACKOFF ELSE t
           \* line 569: the retry loop goes on
           again == ~ok /\ f.exit # "break" /\ w1.sample_retries < MAX_SAMPLE_RETRIES
       IN
       /\ breaker' = [breaker EXCEPT ![own_breaker(b)][topic] =
              IF ok THEN record_success(@) ELSE record_failure(@, t)]
       /\ UNCHANGED dataset_count
       /\ active_batches' = [active_batches EXCEPT ![b] = bs1]
       /\ IF ok
          THEN \* lines 577-586: the sample is counted; add_bulk is entered
               /\ worker' = [worker EXCEPT ![b] = [w1 EXCEPT !.pc = "append"]]
               /\ batch_history' = table1
               /\ now' = t
          ELSE IF again
          THEN /\ worker' = [worker EXCEPT ![b] = [w1 EXCEPT !.pc = "retry"]]
               /\ batch_history' = table1
               /\ now' = t2
          ELSE \* lines 702-708: the end of the iteration
               /\ worker' = [worker EXCEPT ![b] =
                      [w1 EXCEPT !.pc = "loop", !.iteration = @ + 1]]
               /\ batch_history' = IF bs1.samples_generated % SAVE_EVERY = 0
                                   THEN _save_batch_to_db(table1, b, bs1) ELSE table1
               /\ now' = t2 + request_delay(w1)
    /\ UNCHANGED <<cbVars, sseVars, lockVars, enabled, configured, fallback_len, generator, call_log, starts_left,
                   start_result, stop_result, stuck_result>>

\* lines 587-596, 702-708: data_service.add_bulk writes the sample to the dataset
\* (no lock is taken) and returns; the iteration ends
AddBulk(b) ==
    /\ worker[b].pc = "append"
    /\ dataset_count' = dataset_count + 1
    /\ worker' = [worker EXCEPT ![b] = [@ EXCEPT !.pc = "loop", !.iteration = @ + 1]]
    /\ batch_history' = IF active_batches[b].samples_generated % SAVE_EVERY = 0
                        THEN _save_batch_to_db(batch_history, b, active_batches[b])
                        ELSE batch_history
    /\ now' = now + request_delay(worker[b])
    /\ UNCHANGED <<cbVars, sseVars, lockVars, enabled, configured, fallback_len, generator, active_batches, breaker,
                   call_log, starts_left, start_result, stop_result, stuck_result>>

\* lines 710-722: after the main loop
WorkerFinal(b) ==
    /\ worker[b].pc = "final"
    /\ worker' = [worker EXCEPT ![b] = [@ EXCEPT !.pc = "done", !.final_broadcast = TRUE]]
    /\ active_batches' = [active_batches EXCEPT ![b] = [@ EXCEPT
           !.completed_at = now, !.running = FALSE]]
    /\ batch_history' = _save_batch_to_db(batch_history, b, active_batches'[b])
    /\ UNCHANGED <<now, cbVars, sseVars, lockVars, enabled, configured, fallback_len, generator, dataset_count, breaker, call_log,
                   starts_left, start_result, stop_result, stuck_result>>

\* a crash handler that records the error and leaves the running flag alone
crash_state_running(bs, t) ==
    [bs EXCEPT !.errors = Append(@, "crashed")]

\* lines 728-737: what the except branch of the worker does to the batch state
crash_state(bs, t) ==
    [bs EXCEPT !.running = FALSE, !.completed_at = t, !.errors = Append(@, "crashed")]

\* lines 464-465, 724-744: a step of the worker raises; the except branch runs
\* and the thread ends
Crash(b) ==
    /\ worker[b].pc # "done"
    /\ worker' = [worker EXCEPT ![b].pc = "done"]
    /\ active_batches' = [active_batches EXCEPT ![b] = crash_state(@, now)]
    /\ batch_history' = _save_batch_to_db(batch_history, b, active_batches'[b])
    /\ UNCHANGED <<now, cbVars, sseVars, lockVars, enabled, configured, fallback_len, generator, dataset_count, breaker, call_log,
                   starts_left, start_result, stop_result, stuck_result>>

----------------------------------------------------------------------------
(* BatchService: stopping                                                  *)

\* a stop that does not look at the running flag
stop_state_unguarded(bs, t) == [bs EXCEPT !.running = FALSE, !.completed_at = t]

\* lines 400-403, 423-426, 778-780: the stop of one in-memory batch state at time t
stop_state(bs, t) ==
    IF bs.running THEN [bs EXCEPT !.running = FALSE, !.completed_at = t] ELSE bs

\* lines 411-415, 803-805: the stop of a row that is running in the table only
stop_row(row, t) ==
    IF row.status = "running" THEN [row EXCEPT !.status = "stopped", !.completed_at = t]
    ELSE row

RunningInMemory == {b \in DOMAIN active_batches : active_batches[b].running}
RunningRows == {b \in DOMAIN batch_history : batch_history[b].status = "running"}

\* the table after _save_batch_to_db of every batch of the set ids, states taken from m
SaveAll(table, m, ids) ==
    [b \in DOMAIN table |->
        IF b \in ids THEN _save_batch_to_db(table, b, m[b])[b] ELSE table[b]]

\* stop_batch(batch_id) with a batch id
stop_batch(b) ==
    /\ IF b \in DOMAIN active_batches
       THEN /\ active_batches' = [active_batches EXCEPT ![b] = stop_state(@, now)]
            /\ batch_history' = IF active_batches[b].running
                                THEN _save_batch_to_db(batch_history, b, active_batches'[b])
                                ELSE batch_history
            /\ stop_result' = [batch_id |-> b, success |-> active_batches[b].running,
                               stopped |-> {b} \cap RunningInMemory]
       ELSE /\ UNCHANGED active_batches
            /\ batch_history' = IF b \in DOMAIN batch_history
                                THEN [batch_history EXCEPT ![b] = stop_row(@, now)]
                                ELSE batch_history
            /\ stop_result' = [batch_id |-> b, success |-> b \in RunningRows,
                               stopped |-> {b} \cap RunningRows]
    /\ UNCHANGED <<now, cbVars, sseVars, lockVars, enabled, configured, fallback_len, generator, dataset_count, worker, breaker,
                   call_log, starts_left, start_result, stuck_result>>

\* stop_batch(None): lines 420-433
stop_batch_none ==
    /\ active_batches' = [b \in DOMAIN active_batches |-> stop_state(active_batches[b], now)]
    /\ batch_history' = SaveAll(batch_history, active_batches', RunningInMemory)
    /\ stop_result' = [batch_id |-> None, success |-> RunningInMemory # {},
                       stopped |-> RunningInMemory]
    /\ UNCHANGED <<now, cbVars, sseVars, lockVars, enabled, configured, fallback_len, generator, dataset_count, worker, breaker,
                   call_log, starts_left, start_result, stuck_result>>

\* stop_all_batches: lines 766-815
stop_all_batches ==
    /\ active_batches' = [b \in DOMAIN active_batches |-> stop_state(active_batches[b], now)]
    /\ IF RunningInMemory # {}
       THEN /\ batch_history' = SaveAll(batch_history, active_batches', RunningInMemory)
            /\ stop_result' = [batch_id |-> None, success |-> TRUE,
                               stopped |-> RunningInMemory]
       ELSE \* lines 798-815: rows left running in the table; the answer names no id
            /\ batch_history' = [b \in DOMAIN batch_history |-> stop_row(batch_history[b], now)]
            /\ stop_result' = [batch_id |-> None, success |-> RunningRows # {},
                               stopped |-> {}]
    /\ UNCHANGED <<now, cbVars, sseVars, lockVars, enabled, configured, fallback_len, generator, dataset_count, worker, breaker,
                   call_log, starts_left, start_result, stuck_result>>

----------------------------------------------------------------------------
(* BatchService: check_stuck_batches                                       *)

\* line 885-887: rows of batches that are not in memory are skipped
checked_rows == RunningRows \cap DOMAIN active_batches

\* lines 889-896: time_elapsed is in minutes, samples_generated is the row's
is_stuck(row, t) ==
    LET seconds == t - row.started_at IN
    \/ seconds > STUCK_THRESHOLD_MINUTES * 60 /\ row.samples_generated = 0
    \/ seconds > ABSOLUTE_STUCK_MINUTES * 60

\* check_stuck_batches: lines 870-942
check_stuck_batches ==
    LET stuck == {b \in checked_rows : is_stuck(batch_history[b], now)} IN
    /\ active_batches' = [b \in DOMAIN active_batches |->
           IF b \in stuck
           THEN [active_batches[b] EXCEPT !.running = FALSE, !.completed_at = now,
                                          !.errors = Append(@, "auto_stopped")]
           ELSE active_batches[b]]
    /\ batch_history' = [b \in DOMAIN batch_history |->
           IF b \in stuck
           THEN [batch_history[b] EXCEPT !.status = "stopped", !.completed_at = now]
           ELSE batch_history[b]]
    /\ stuck_result' = stuck
    /\ UNCHANGED <<now, cbVars, sseVars, lockVars, enabled, configured, fallback_len, generator, dataset_count, worker,
                   breaker, call_log, starts_left, start_result, stop_result>>

----------------------------------------------------------------------------
(* One process: clients that start and stop batches, and the workers       *)

EnabledChoices == {{priority_order[i] : i \in 1..n} : n \in 1..MaxProviders}

\* a row a previous process left behind with status running
LeftRunning == 0 :> [started_at |-> 1, completed_at |-> None, samples_generated |-> 0,
                     status |-> "running", errors |-> <<>>]

\* start_batch as a client calls it: provider 'auto' is passed with smart_mode on
StartWith(targets, smart_modes, providers) ==
    \E target_count \in targets, provider \in providers,
       model \in {None, CustomModel}, smart_mode \in smart_modes,
       topic_filter \in {None, 1} :
        /\ smart_mode \/ provider # "auto"
        /\ start_batch(target_count, provider, model, smart_mode, topic_filter)

Work ==
    \E b \in BatchIds :
        \/ WorkerInit(b)
        \/ LoopTop(b)
        \/ GenCall(b)
        \/ \E answer \in {"ok", "api key"} \cup ErrorTexts : GenReturn(b, answer)
        \/ AddBulk(b)
        \/ WorkerFinal(b)

Stop ==
    \/ \E b \in DOMAIN active_batches \cup DOMAIN batch_history : stop_batch(b)
    \/ stop_batch_none
    \/ stop_all_batches

\* Spec: one job on one provider, any generator, clients that stop at any moment;
\* the table may hold a row a previous process left running
Init ==
    /\ InitCommon
    /\ fallback_len = NumModels
    /\ batch_history \in {<<>>, LeftRunning}
    /\ enabled = {priority_order[1]}
    /\ configured = enabled
    /\ generator = "any"
    /\ starts_left = 1

Next ==
    \/ StartWith(1..MaxTarget, BOOLEAN, {"auto"} \cup enabled)
    \/ Work
    \/ Stop

Spec == Init /\ [][Next]_vars

\* SpecFailover: one smart-mode job left alone, one to MaxProviders providers,
\* any generator, instant or slow
InitFailover ==
    /\ InitCommon
    /\ fallback_len = NumModels
    /\ batch_history = <<>>
    /\ enabled \in EnabledChoices
    /\ configured = enabled
    /\ generator \in {"any", "slow"}
    /\ starts_left = 1

NextFailover ==
    \/ StartWith(1..MaxTarget, {TRUE}, {"auto"})
    \/ Work

SpecFailover == InitFailover /\ [][NextFailover]_vars

\* SpecScenario: one job left alone with a generator of fixed behaviour
InitScenario ==
    /\ InitCommon
    /\ fallback_len = NumModels
    /\ batch_history = <<>>
    /\ enabled \in EnabledChoices
    /\ configured = enabled
    /\ generator \in {"ok", "fail_all", "first_limited"}
    /\ starts_left = 1

NextScenario ==
    \/ StartWith(1..(MaxTarget + 1), BOOLEAN, {"auto"} \cup enabled)
    \/ Work

SpecScenario == InitScenario /\ [][NextScenario]_vars

\* SpecStuck: one job whose generator calls take more than an hour, and a client
\* that calls check_stuck_batches at any moment; the table may hold a row a
\* previous process left running
InitStuck ==
    /\ InitCommon
    /\ fallback_len = NumModels
    /\ batch_history \in {<<>>, LeftRunning}
    /\ enabled = {priority_order[1]}
    /\ configured = enabled
    /\ generator = "stalled"
    /\ starts_left = 1

NextStuck ==
    \/ StartWith(1..(MaxTarget + 1), BOOLEAN, {"auto"} \cup enabled)
    \/ Work
    \/ check_stuck_batches

SpecStuck == InitStuck /\ [][NextStuck]_vars

\* SpecCrash: one job whose worker may raise at any step, and clients that stop
\* at any moment
InitCrash ==
    /\ InitCommon
    /\ fallback_len = NumModels
    /\ batch_history = <<>>
    /\ enabled = {priority_order[1]}
    /\ configured = enabled
    /\ generator \in {"ok", "fail_all"}
    /\ starts_left = 1

NextCrash ==
    \/ StartWith(1..(MaxTarget + 1), BOOLEAN, {"auto"} \cup enabled)
    \/ Work
    \/ \E b \in BatchIds : Crash(b)
    \/ Stop

SpecCrash == InitCrash /\ [][NextCrash]_vars

\* SpecKeyless: one smart-mode job left alone with MaxProviders enabled providers of
\* which some have no API key in the database; the generator answers 429 on the
\* others; the worker thread is scheduled as long as it has a step to take
InitKeyless ==
    /\ InitCommon
    /\ fallback_len = NumModels
    /\ batch_history = <<>>
    /\ enabled = {priority_order[i] : i \in 1..MaxProviders}
    /\ configured \in SUBSET enabled \ {enabled}
    /\ generator = "fail_all"
    /\ starts_left = 1

NextKeyless ==
    \/ StartWith(1..MaxTarget, {TRUE}, {"auto"} \cup enabled)
    \/ Work

SpecKeyless == InitKeyless /\ [][NextKeyless]_vars /\ WF_vars(Work)

\* SpecFive: an empty dataset, one provider with one model, a generator that
\* always succeeds, and one job of ScenarioTarget samples left alone
InitFive ==
    /\ InitCommon
    /\ fallback_len = 1
    /\ batch_history = <<>>
    /\ enabled = {priority_order[1]}
    /\ configured = enabled
    /\ generator = "ok"
    /\ starts_left = 1

NextFive ==
    \/ StartWith({ScenarioTarget}, BOOLEAN, {"auto"} \cup enabled)
    \/ Work

SpecFive == InitFive /\ [][NextFive]_vars

\* SpecRestart: a client that calls start_batch twice, with any target from 0,
\* while the job of the first call adds samples to the dataset
InitRestart ==
    /\ InitCommon
    /\ fallback_len = NumModels
    /\ batch_history = <<>>
    /\ enabled = {priority_order[1]}
    /\ configured = enabled
    /\ generator = "ok"
    /\ starts_left = 2

NextRestart ==
    \/ StartWith(0..(MaxTarget + 1), BOOLEAN, {"auto"} \cup enabled)
    \/ Work

SpecRestart == InitRestart /\ [][NextRestart]_vars

\* SpecSelect: any set of the first MaxProviders providers enabled, none included,
\* and one job started with 'auto' or with a provider by name
InitSelect ==
    /\ InitCommon
    /\ fallback_len = NumModels
    /\ batch_history = <<>>
    /\ enabled \in SUBSET {priority_order[i] : i \in 1..MaxProviders}
    /\ configured = enabled
    /\ generator = "ok"
    /\ starts_left = 1

NextSelect ==
    \/ StartWith(1..MaxTarget, BOOLEAN, {"auto"} \cup {priority_order[i] : i \in 1..MaxProviders})
    \/ Work

SpecSelect == InitSelect /\ [][NextSelect]_vars

\* SpecPair: two jobs without failover, both filtered to the first topic, side by
\* side on one provider whose generator always fails
InitPair ==
    /\ InitCommon
    /\ fallback_len = NumModels
    /\ batch_history = <<>>
    /\ enabled = {priority_order[1]}
    /\ configured = enabled
    /\ generator = "fail_all"
    /\ starts_left = 2

NextPair ==
    \/ \E target_count \in 1..MaxTarget, provider \in enabled :
          start_batch(target_count, provider, None, FALSE, 1)
    \/ Work

SpecPair == InitPair /\ [][NextPair]_vars

\* SpecAuth: one smart-mode job left alone, one to MaxProviders providers, and a
\* generator that answers every call with an authentication error
InitAuth ==
    /\ InitCommon
    /\ fallback_len = NumModels
    /\ batch_history = <<>>
    /\ enabled \in EnabledChoices
    /\ configured = enabled
    /\ generator = "unauthorized"
    /\ starts_left = 1

NextAuth ==
    \/ StartWith(1..MaxTarget, {TRUE}, {"auto"} \cup enabled)
    \/ Work

SpecAuth == InitAuth /\ [][NextAuth]_vars

----------------------------------------------------------------------------
(* Claims about the worker loop                                            *)

\* the topic of the tuple worker b is working on
current_topic(b) == topic_key(active_batches[b], worker[b].iteration)

\* C1: the generator is never called for a topic whose circuit, in the job's own
\* breaker, is open at the moment of the call; this covers every call of the retry
\* loop, also the ones that follow a model or provider switch.
C1_NoCallOnOpenCircuit ==
    \A b \in BatchIds :
        worker[b].pc = "inflight" => breaker[b][current_topic(b)].state # "open"

\* the provider the job was started on
first_provider(bs) == CHOOSE p \in bs.failed_models_by_provider : TRUE

\* C2: a provider switch away from P is issued only when every model of P's
\* fallback order has been tried in the job, whatever the job's initial model was.
C2_ModelsBeforeProviderSwitch ==
    [][\A b \in BatchIds :
          worker'[b].provider # worker[b].provider =>
              Range(get_fallback_order(worker[b].provider)) \subseteq
                  Range(active_batches'[b].tried_models_by_provider[worker[b].provider])]_vars

\* C3: when every call fails with a switch-triggering error, a smart-mode job that
\* has ended is persisted as stopped, holds exactly one 'All providers and models
\* exhausted' error and has generated nothing, for any number of enabled providers.
C3_ExhaustionEndsJob ==
    \A b \in BatchIds :
        ( generator = "fail_all" /\ active_batches[b].smart_mode
          /\ worker[b].pc = "done" ) =>
            /\ batch_history[b].status = "stopped"
            /\ active_batches[b].errors = <<"exhausted">>
            /\ active_batches[b].samples_generated = 0

\* C4: two enabled providers, a smart-mode job started on the first-ranked model of
\* its provider A, rate-limit errors on every model of A and success on B: the job
\* ends on B with len(fallback order of A) model switches and one provider switch.
C4_SwitchCounts ==
    \A b \in BatchIds :
        LET bs == active_batches[b]
            A == first_provider(bs)
        IN  ( generator = "first_limited" /\ Cardinality(enabled) = 2 /\ bs.smart_mode
              /\ bs.tried_models_by_provider[A][1] = champion_model(A)
              /\ worker[b].pc = "done" ) =>
                /\ bs.current_provider \in enabled \ {A}
                /\ Len(bs.model_switches) = Len(get_fallback_order(A))
                /\ Len(bs.provider_switches) = 1

\* C5: in every 60-second interval a job issues at most requests_per_minute calls
\* to one provider, failed calls, retries and calls after a switch included.
C5_CallsPerWindow ==
    \A b \in BatchIds : \A p \in ProviderIds :
        LET log == call_log[b]
            last == log[Len(log)][2]
        IN  Len(log) > 0 =>
                Cardinality({i \in 1..Len(log) :
                                log[i][1] = p /\ log[i][2] > last - RATE_WINDOW})
                    <= get_rate_limits(p)

----------------------------------------------------------------------------
(* Claims about stopping                                                   *)

AllBatchIds == DOMAIN active_batches \cup DOMAIN batch_history

\* a job is running: by its in-memory flag, or by its row when it is in the table only
JobRunning(b, memory, table) ==
    IF b \in DOMAIN memory THEN memory[b].running
    ELSE b \in DOMAIN table /\ table[b].status = "running"

\* C6: samples_generated never decreases, and it never changes once the job is no
\* longer running, also when a call in flight at the Stop returns a sample later.
C6_SamplesFrozenWhenNotRunning ==
    [][\A b \in BatchIds :
          /\ active_batches'[b].samples_generated >= active_batches[b].samples_generated
          /\ ~active_batches[b].running =>
                active_batches'[b].samples_generated = active_batches[b].samples_generated]_vars

\* C7: when a generator call returns to a worker whose job is no longer running,
\* the worker does not go on to another call of the retry loop.
C7_NoRetryAfterStop ==
    [][\A b \in BatchIds :
          (worker[b].pc = "inflight" /\ ~active_batches[b].running) =>
              worker'[b].pc # "retry"]_vars

\* C8: stop_batch(b) on a job that is not running leaves the job's in-memory state
\* and its row as they are and returns a failure result.
C8_StopIsIdempotent ==
    [][\A b \in AllBatchIds :
          (stop_batch(b) /\ ~JobRunning(b, active_batches, batch_history)) =>
              /\ active_batches' = active_batches
              /\ batch_history' = batch_history
              /\ stop_result' = [batch_id |-> b, success |-> FALSE, stopped |-> {}]]_vars

\* a second stop_batch(b) has returned: the job was stopped while its worker was busy,
\* the worker went on (the clock passed the stop), and the last call said failure
C8_Witness ==
    \E b \in BatchIds :
        /\ stop_result = [batch_id |-> b, success |-> FALSE, stopped |-> {}]
        /\ ~active_batches[b].running
        /\ worker[b].pc \notin {"final", "done"}
        /\ active_batches[b].completed_at # None
        /\ active_batches[b].completed_at < now

\* C9: a stop call returns exactly the batch ids it changed from running to not
\* running.
C9_ReturnsExactlyTheStopped ==
    [][Stop =>
          stop_result'.stopped =
              {b \in AllBatchIds : /\ JobRunning(b, active_batches, batch_history)
                                   /\ ~JobRunning(b, active_batches', batch_history')}]_vars

----------------------------------------------------------------------------
(* Claims about check_stuck_batches                                        *)

\* rows with status running of batches that are not in the in-memory registry
Zombies == RunningRows \ DOMAIN active_batches

\* C13: check_stuck_batches stops every zombie: after the call its row has status
\* stopped and its batch id is among the stopped batches the call returns.
C13_ZombiesAreStopped ==
    [][check_stuck_batches =>
          \A b \in Zombies :
              batch_history'[b].status = "stopped" /\ b \in stuck_result']_vars

\* C14: check_stuck_batches changes neither the in-memory state nor the row of a
\* job whose worker is alive and that has generated samples, whatever its age.
C14_ProgressingJobUntouched ==
    [][check_stuck_batches =>
          \A b \in BatchIds :
              ( worker[b].pc # "done" /\ active_batches[b].running
                /\ active_batches[b].samples_generated > 0 ) =>
                  /\ active_batches'[b] = active_batches[b]
                  /\ batch_history'[b] = batch_history[b]]_vars

----------------------------------------------------------------------------
(* Claims about a worker that raises                                       *)

\* C15: when a step of the worker raises, the except branch appends an error
\* record, sets the job non-running with completed_at set and saves the row; in
\* no state is a job running in memory while its worker thread has ended.
C15_CrashIsRecorded ==
    [][\A b \in DOMAIN active_batches' :
          /\ worker'[b].pc = "done" => ~active_batches'[b].running
          /\ ( b \in BatchIds /\ worker[b].pc \notin {"final", "done"} /\ worker'[b].pc = "done" ) =>
                /\ active_batches'[b].errors = Append(active_batches[b].errors, "crashed")
                /\ active_batches'[b].completed_at = now
                /\ batch_history'[b].status # "running"
                /\ batch_history'[b].errors = active_batches'[b].errors
                /\ batch_history'[b].samples_generated = active_batches'[b].samples_generated]_vars

\* a worker that raised in the middle of a job that was still running
C15_Witness ==
    \E b \in BatchIds :
        /\ worker[b].pc = "done"
        /\ worker[b].iteration > 0
        /\ active_batches[b].errors # <<>>
        /\ active_batches[b].errors[Len(active_batches[b].errors)] = "crashed"
        /\ active_batches[b].samples_generated > 0
        /\ active_batches[b].samples_generated < active_batches[b].total

----------------------------------------------------------------------------
(* Claims about termination                                                *)

\* C16: every job that start_batch created eventually becomes non-running when
\* every generator call returns and the worker is scheduled fairly: the main loop
\* runs at most samples_needed * 3 iterations, and the retry loop of one tuple
\* ends although model and provider switches reset its retry counter.
C16_EveryJobEnds ==
    /\ [](\A b \in BatchIds :
            worker[b].pc # "start" => worker[b].iteration <= worker[b].samples_needed * SAFETY_FACTOR)
    /\ (\E b \in BatchIds : active_batches[b].running)
          ~> (\A b \in BatchIds : ~active_batches[b].running /\ worker[b].pc = "done")

\* C17: once the time since the worker started exceeds MAX_BATCH_TIMEOUT the job
\* makes no further generator call, wherever it is in the retry loop of the
\* current tuple.
C17_NoCallAfterTimeout ==
    [][\A b \in BatchIds :
          ( worker[b].pc \in {"call", "retry"} /\ worker'[b].pc = "inflight" ) =>
              now - worker[b].batch_start_time <= MAX_BATCH_TIMEOUT]_vars

\* C18: in every reachable state of a job the number of recorded switches,
\* len(model_switches) + len(provider_switches), is at most MAX_MODEL_SWITCHES.
C18_SwitchesCapped ==
    \A b \in BatchIds :
        Len(active_batches[b].model_switches) + Len(active_batches[b].provider_switches)
            <= MAX_MODEL_SWITCHES

----------------------------------------------------------------------------
(* Claims about one job that meets no failure                              *)

\* C19: with target_count = ScenarioTarget, no existing samples and a single
\* provider and model whose generator always succeeds, the job ends completed:
\* not running in memory, its row 'completed', samples_generated = ScenarioTarget
\* and no errors; and until then it is running with fewer samples.
C19_FiveSamplesCompleted ==
    \A b \in BatchIds :
        LET bs == active_batches[b]
            row == batch_history[b]
        IN  /\ bs.errors = <<>> /\ row.errors = <<>>
            /\ bs.samples_generated <= ScenarioTarget
            /\ IF worker[b].pc = "done"
               THEN /\ ~bs.running /\ bs.completed_at # None
                    /\ bs.samples_generated = ScenarioTarget
                    /\ row.status = "completed"
                    /\ row.samples_generated = ScenarioTarget
                    /\ row.completed_at = bs.completed_at
               ELSE bs.running /\ row.status = "running"

\* the job has ended with its ScenarioTarget samples in the dataset
C19_Witness ==
    \E b \in BatchIds :
        /\ worker[b].pc = "done"
        /\ active_batches[b].samples_generated = ScenarioTarget
        /\ dataset_count = ScenarioTarget
        /\ batch_history[b].status = "completed"

----------------------------------------------------------------------------
(* Claims about start_batch                                                *)

\* C20: a start_batch call whose target_count is less than or equal to the
\* current number of persisted samples returns the failure 'Target already met'
\* and changes nothing: no batch id is added to the registry, no row is saved and
\* no worker is started; a call with a larger target succeeds and does all three.
C20_TargetAlreadyMet ==
    [][starts_left' = starts_left - 1 =>
          IF start_result'.target_count <= dataset_count
          THEN /\ ~start_result'.success
               /\ start_result'.error = "Target already met"
               /\ start_result'.batch_id = None
               /\ UNCHANGED <<active_batches, batch_history, worker, breaker, dataset_count>>
          ELSE /\ start_result'.success
               /\ start_result'.batch_id \in DOMAIN active_batches' \ DOMAIN active_batches
               /\ start_result'.batch_id \in DOMAIN batch_history' \ DOMAIN batch_history
               /\ worker'[start_result'.batch_id].pc = "start"]_vars

\* a refused call for a positive target that the dataset has reached exactly,
\* after an earlier job generated the samples
C20_Witness ==
    /\ ~start_result.success
    /\ start_result.error = "Target already met"
    /\ start_result.target_count > 0
    /\ start_result.target_count = dataset_count
    /\ starts_left = 0
    /\ Cardinality(DOMAIN active_batches) = 1

\* C21: start_batch with provider 'auto' and smart_mode on picks the first
\* enabled provider of the priority list and, when no model is given, that
\* provider's champion model; when no provider is enabled it fails and creates no
\* job: no registry entry, no row and no worker.
C21_AutoSelection ==
    [][( /\ starts_left' = starts_left - 1
         /\ start_result'.provider = "auto" /\ start_result'.smart_mode
         /\ start_result'.target_count > dataset_count ) =>
          IF enabled = {}
          THEN /\ ~start_result'.success
               /\ UNCHANGED <<active_batches, batch_history, worker>>
          ELSE /\ start_result'.success
               /\ LET bs == active_batches'[start_result'.batch_id] IN
                    /\ bs.current_provider = FirstByPriority(enabled)
                    /\ start_result'.model = None =>
                           bs.current_model = champion_model(bs.current_provider)]_vars

----------------------------------------------------------------------------
(* Claims about jobs that run side by side                                 *)

\* workers inside data_service.add_bulk
Appending == {b \in BatchIds : worker[b].pc = "append"}

\* C23: appending samples to the shared dataset is mutually exclusive across the
\* running jobs: at any time at most one worker is inside the append step.
C23_OneAppender == Cardinality(Appending) <= 1

\* C24: failures that job A records for a topic never change whether job B
\* skips that topic: each worker has its own breaker, and a step of one worker
\* changes the circuits of no other job.
C24_OwnBreaker ==
    [][\A a \in BatchIds :
          worker'[a] # worker[a] =>
              \A b \in BatchIds \ {a} :
                  /\ breaker'[b] = breaker[b]
                  /\ \A k \in Topics :
                        is_open(breaker'[b][k], now)[1] = is_open(breaker[b][k], now)[1]]_vars

\* job A has opened the circuit of a topic that job B, whose circuit for it is
\* closed, is calling the generator for
C24_Witness ==
    \E a, b \in BatchIds :
        /\ a # b
        /\ worker[b].pc = "inflight"
        /\ breaker[a][current_topic(b)].state = "open"
        /\ breaker[b][current_topic(b)].state = "closed"
        /\ breaker[b][current_topic(b)].failure_count = 0

----------------------------------------------------------------------------
(* Claims about the choice of the next model and provider                  *)

\* providers of the generator calls job b made in the last RATE_WINDOW seconds
called_providers(b) == {call_log[b][i][1] : i \in 1..Len(call_log[b])}

\* C25: after a generator call on a provider has failed with an authentication
\* error the job makes no further generator call on that provider, with any
\* model. (In SpecAuth every call that has returned failed in that way.)
C25_NoCallAfterAuthFailure ==
    [][\A b \in BatchIds :
          ( worker[b].pc \in {"call", "retry"} /\ worker'[b].pc = "inflight" ) =>
              worker[b].provider \notin called_providers(b)]_vars

\* utils/error_handler.py categorize_error on the error texts of the model
categorize_error(error) ==
    CASE error \in {"401", "api key"} -> "authentication"
      [] error = "invalid model" -> "model_unavailable"
      [] error = "429" -> "rate_limit"
      [] error = "timeout" -> "timeout"
      [] OTHER -> "general"

immediate_switch_categories ==
    {"model_unavailable", "rate_limit", "timeout", "connection_error", "server_error"}

should_switch_immediately(error_category) == error_category \in immediate_switch_categories

\* the failure branch of job b went into the switch of line 607: a model was
\* switched or _switch_to_next_provider was called
switch_triggered(b) ==
    \/ active_batches'[b].model_switches # active_batches[b].model_switches
    \/ active_batches'[b].provider_failures # active_batches[b].provider_failures

\* C26: a failed generator call of a smart-mode job triggers a switch exactly
\* when the category of its error is one of model_unavailable, rate_limit,
\* timeout, connection_error, server_error, or when the consecutive failures of
\* the job, this one included, have reached 3.
C26_SwitchCategories ==
    [][\A b \in BatchIds : \A error \in ErrorTexts :
          ( GenReturn(b, error) /\ active_batches[b].smart_mode ) =>
              ( switch_triggered(b) <=>
                    \/ should_switch_immediately(categorize_error(error))
                    \/ active_batches[b].consecutive_failures + 1 >= 3 )]_vars

\* providers other than the current one that failed fewer than PROVIDER_GIVE_UP
\* times in job b, by the counts after the step
fresh_providers(b) ==
    {p \in enabled \ {worker[b].provider} :
        active_batches'[b].provider_failures[p] < PROVIDER_GIVE_UP}

\* C27: on a provider switch the next provider is the first in the priority
\* order, other than the current one, that has failed fewer than 3 times in the
\* job; a provider that has failed 3 or more times is selected only when every
\* enabled provider has failed at least once.
C27_NextProvider ==
    [][\A b \in DOMAIN worker :
          ( worker[b].pc = "inflight" /\ worker'[b].provider # worker[b].provider ) =>
              /\ fresh_providers(b) # {} =>
                     worker'[b].provider = FirstByPriority(fresh_providers(b))
              /\ active_batches'[b].provider_failures[worker'[b].provider] >= PROVIDER_GIVE_UP =>
                     \A p \in enabled : active_batches'[b].provider_failures[p] > 0]_vars

\* C28: after every provider switch to a provider P, a switch back to a provider
\* used earlier in the job included, the tried models of P are exactly P's first
\* fallback model, and that model is the job's current model and the model of
\* the next generator call.
C28_TriedModelsReset ==
    [][\A b \in DOMAIN worker :
          ( worker[b].pc = "inflight" /\ worker'[b].provider # worker[b].provider ) =>
              LET P == worker'[b].provider
                  first == get_fallback_order(P)[1]
              IN  /\ active_batches'[b].tried_models_by_provider[P] = <<first>>
                  /\ active_batches'[b].current_model = first
                  /\ worker'[b].model = first]_vars

----------------------------------------------------------------------------
(* Claims about the end of the retry loop                                  *)

\* the step of job b in which the retry loop of a tuple ends on its
\* MAX_SAMPLE_RETRIES-th failure and the loop advances to the next tuple
retries_exhausted(b) ==
    /\ worker[b].pc = "inflight"
    /\ worker'[b].pc = "loop"
    /\ worker'[b].iteration = worker[b].iteration + 1
    /\ worker'[b].sample_retries = MAX_SAMPLE_RETRIES

\* C29: when the generator calls for a tuple have failed MAX_SAMPLE_RETRIES
\* times without a switch, an error record is appended to the job's errors
\* before the loop advances to the next tuple; the job stays running and
\* samples_generated is unchanged.
C29_ErrorRecorded ==
    [][\A b \in DOMAIN worker :
          retries_exhausted(b) =>
              /\ Len(active_batches'[b].errors) = Len(active_batches[b].errors) + 1
              /\ active_batches'[b].running = active_batches[b].running
              /\ active_batches'[b].samples_generated = active_batches[b].samples_generated]_vars

----------------------------------------------------------------------------
(* Claims about the counters of a circuit                                  *)

\* C30: when a half-open circuit closes on its success-threshold-th success,
\* both counters are reset: failure_count = 0 and success_count = 0 in the
\* closed state that results.
C30_CountersResetOnClose ==
    [][\A k \in Topics :
          ( circuits[k].state = "half_open" /\ circuits'[k].state = "closed" ) =>
              /\ circuits'[k].failure_count = 0
              /\ circuits'[k].success_count = 0]_vars

----------------------------------------------------------------------------
(* SSEService: subscribers and broadcasts, specification SpecSSE           *)

QueueIds == 1..NumSubscribers
\* maxsize of a queue.Queue: 0 is unbounded (the stream route's Queue()), 1 holds
\* one message
QueueSizes == {0, 1}

\* the list s without the first occurrence of q (list.remove)
list_remove(s, q) ==
    LET at == CHOOSE i \in 1..Len(s) : s[i] = q /\ \A j \in 1..(i - 1) : s[j] # q
    IN  [i \in 1..(Len(s) - 1) |-> IF i < at THEN s[i] ELSE s[i + 1]]

\* queue.Queue.put_nowait raises Full
put_fails(q) == queues[q].maxsize > 0 /\ queues[q].len >= queues[q].maxsize

\* lines 19-22, on a queue the caller has just created
add_subscriber(q, maxsize) ==
    /\ q \notin DOMAIN queues
    /\ queues' = queues @@ (q :> [len |-> 0, maxsize |-> maxsize])
    /\ subscribers' = Append(subscribers, q)
    /\ UNCHANGED <<now, cbVars, jobVars, lockVars, publish>>

\* lines 24-27
remove_subscriber(q) ==
    /\ q \in Range(subscribers)
    /\ subscribers' = list_remove(subscribers, q)
    /\ UNCHANGED <<now, cbVars, jobVars, lockVars, queues, publish>>

\* generation_routes.py line 253: the stream takes a message off its queue
QueueGet(q) ==
    /\ q \in DOMAIN queues
    /\ queues[q].len > 0
    /\ queues' = [queues EXCEPT ![q].len = @ - 1]
    /\ UNCHANGED <<now, cbVars, jobVars, lockVars, subscribers, publish>>

\* lines 57-61: the message is built and the loop over self.subscribers begins
PublishBegin ==
    /\ publish.pc = "idle"
    /\ publish' = [pc |-> "iter", i |-> 0, active_subscribers |-> <<>>,
                   delivered |-> {}, failed |-> {}]
    /\ UNCHANGED <<now, cbVars, jobVars, lockVars, subscribers, queues>>

\* lines 61-66: one pass of the loop; the list iterator reads the list that
\* self.subscribers is now, at its own index
PublishPut ==
    /\ publish.pc = "iter"
    /\ publish.i < Len(subscribers)
    /\ LET q == subscribers[publish.i + 1] IN
       IF put_fails(q)
       THEN /\ publish' = [publish EXCEPT !.i = @ + 1, !.failed = @ \cup {q}]
            /\ UNCHANGED queues
       ELSE /\ publish' = [publish EXCEPT !.i = @ + 1, !.delivered = @ \cup {q},
                                          !.active_subscribers = Append(@, q)]
            /\ queues' = [queues EXCEPT ![q].len = IF @ < MaxQueued THEN @ + 1 ELSE @]
    /\ UNCHANGED <<now, cbVars, jobVars, lockVars, subscribers>>

\* lines 61 and 68: the iterator is exhausted and the list is replaced; no call
\* lies between the two
PublishFinish ==
    /\ publish.pc = "iter"
    /\ publish.i >= Len(subscribers)
    /\ subscribers' = publish.active_subscribers
    /\ publish' = [publish EXCEPT !.pc = "idle"]
    /\ UNCHANGED <<now, cbVars, jobVars, lockVars, queues>>

\* SpecSSE: stream clients that connect, read and disconnect at any moment while a
\* worker thread broadcasts
InitSSE ==
    /\ InitCommon
    /\ fallback_len = NumModels
    /\ batch_history = <<>>
    /\ enabled = {}
    /\ configured = enabled
    /\ generator = "any"
    /\ starts_left = 0

NextSSE ==
    \/ \E q \in QueueIds, maxsize \in QueueSizes : add_subscriber(q, maxsize)
    \/ \E q \in QueueIds : remove_subscriber(q)
    \/ \E q \in QueueIds : QueueGet(q)
    \/ PublishBegin
    \/ PublishPut
    \/ PublishFinish

SpecSSE == InitSSE /\ [][NextSSE]_vars

\* C31: the subscriber set is updated atomically with respect to a broadcast: a
\* subscriber removed while the broadcast runs is not in the set when it finishes,
\* and a subscriber in the set at that moment is dropped only if its put failed,
\* so that a subscriber added meanwhile is not lost.
C31_AtomicSubscriberSet ==
    [][( publish.pc = "iter" /\ publish'.pc = "idle" ) =>
          /\ Range(subscribers') \subseteq Range(subscribers)
          /\ Range(subscribers) \ publish.failed \subseteq Range(subscribers')]_vars

\* C32: a broadcast delivers the message to every subscriber whose queue accepts
\* a put and keeps exactly those subscribers; exactly the subscribers whose put
\* failed are removed.
C32_DeliveredAreKept ==
    [][( publish.pc = "iter" /\ publish'.pc = "idle" ) =>
          /\ Range(subscribers') = publish.delivered
          /\ Range(subscribers) \ Range(subscribers') = publish.failed]_vars

----------------------------------------------------------------------------
(* Claims about the end of a worker                                        *)

\* C33: on every exit path of the worker (target met, stop, timeout, exhaustion,
\* iteration bound, caught exception) completed_at is set, the final state of the
\* job is saved to the table, and a final update has been broadcast.
C33_EveryExitPublishes ==
    \A b \in DOMAIN worker :
        worker[b].pc = "done" =>
            /\ active_batches[b].completed_at # None
            /\ b \in DOMAIN batch_history
            /\ batch_history[b].completed_at = active_batches[b].completed_at
            /\ batch_history[b].samples_generated = active_batches[b].samples_generated
            /\ worker[b].final_broadcast

----------------------------------------------------------------------------
(* Claims about the circuits in a worker                                   *)

\* the circuits of all topics of job b's filter are open at the present time
all_topics_open(b) ==
    \A k \in Range(filtered_topics(active_batches[b])) :
        is_open(breaker[own_breaker(b)][k], now)[1]

\* C34: when the circuits of all filtered topics are open at the same time, the
\* worker sleeps before it checks a circuit again: time passes in a skip step.
C34_SleepWhenAllOpen ==
    [][\A b \in DOMAIN worker :
          ( /\ worker[b].pc = "loop" /\ worker'[b].pc = "loop"
            /\ worker'[b].iteration = worker[b].iteration + 1
            /\ all_topics_open(b) ) => now' > now]_vars

\* C35: in a run of a worker no circuit goes from open directly to closed: every
\* path from open to closed passes through half-open, also when a retry of the
\* tuple succeeds after the circuit opened during the tuple's retry loop.
C35_ClosedOnlyFromHalfOpen ==
    [][\A b \in DOMAIN breaker : \A k \in Topics :
          breaker[b][k].state = "open" => breaker'[b][k].state # "closed"]_vars

----------------------------------------------------------------------------
(* Claims about the saved status                                           *)

\* C36: a saved row has status completed only if the job met its target
\* (samples_generated >= the samples it needed); the row of a job ended by a
\* stop, the stuck check, the timeout, exhaustion, the iteration bound or a crash
\* has status stopped.
C36_CompletedMeansTargetMet ==
    \A b \in BatchIds \cap DOMAIN batch_history :
        batch_history[b].status = "completed" =>
            batch_history[b].samples_generated >= active_batches[b].total

----------------------------------------------------------------------------
(* Claims about the arguments of a generator call                          *)

\* C37: at every generator call the provider and the model passed to the
\* generator are current_provider and current_model of the job's state, and the
\* model is not None, also on the call that follows a switch to a provider with
\* no untried model left.
C37_CallUsesCurrentPair ==
    \A b \in DOMAIN worker :
        worker[b].pc = "inflight" =>
            /\ worker[b].provider = active_batches[b].current_provider
            /\ worker[b].model = active_batches[b].current_model
            /\ worker[b].model # None

----------------------------------------------------------------------------
(* Claims about a stopped job                                              *)

\* C38: once a stop or the stuck check has set completed_at of a job, no later
\* step changes it: the completed_at written by the stopping call is the one of
\* the final state in memory and of the final row.
C38_CompletedAtIsFinal ==
    [][\A b \in BatchIds :
          ( ~active_batches[b].running /\ active_batches[b].completed_at # None ) =>
              /\ active_batches'[b].completed_at = active_batches[b].completed_at
              /\ b \in DOMAIN batch_history =>
                     batch_history'[b].completed_at = batch_history[b].completed_at]_vars

----------------------------------------------------------------------------
(* The registry lock: specification SpecLock                               *)

\* a method that takes the lock again while it holds it
lock_program_nested(op) ==
    CASE op = "stop_batch" -> <<"acquire", "body", "acquire", "body", "release", "save", "release">>
      [] OTHER -> <<"acquire", "body", "release">>

\* what each method does with batch_lock, in the order of its code: "acquire" and
\* "release" are the entry and the exit of `with self.batch_lock`, "body" the
\* statements inside it, "save" a call of _save_batch_to_db, "db" a query or a
\* commit, "work" the worker's loop, "broadcast" a call of the SSE service
lock_program(op) ==
    CASE op = "start_batch" -> <<"db", "acquire", "body", "release", "save">>
      [] op = "stop_batch" -> <<"acquire", "body", "save", "release">>
      [] op = "stop_all_batches" -> <<"acquire", "body", "release", "save">>
      [] op = "get_batch_status" -> <<"acquire", "body", "release">>
      [] op = "get_batch_history" -> <<"db", "acquire", "body", "release">>
      [] op = "check_stuck_batches" -> <<"db", "acquire", "body", "release", "db">>
      [] op = "_batch_worker" -> <<"acquire", "body", "release", "work", "save", "broadcast">>
      [] op = "except" -> <<"acquire", "body", "save", "release">>
      [] OTHER -> <<>>

Methods == {"start_batch", "stop_batch", "stop_all_batches", "get_batch_status",
            "get_batch_history", "check_stuck_batches", "_batch_worker"}

\* the step thread t is at, or "end"
instruction(t) ==
    IF threads[t].pos <= Len(lock_program(threads[t].op))
    THEN lock_program(threads[t].op)[threads[t].pos]
    ELSE "end"

\* a request arrives, or a worker thread is started, and thread t runs the method
ThreadCall(t, op) ==
    /\ threads[t].op = "idle"
    /\ threads' = [threads EXCEPT ![t] = [op |-> op, pos |-> 1]]
    /\ UNCHANGED <<now, cbVars, jobVars, sseVars, batch_lock>>

\* threading.Lock.acquire: the thread goes on when the lock is free
LockAcquire(t) ==
    /\ instruction(t) = "acquire"
    /\ batch_lock = 0
    /\ batch_lock' = t
    /\ threads' = [threads EXCEPT ![t].pos = @ + 1]
    /\ UNCHANGED <<now, cbVars, jobVars, sseVars>>

LockRelease(t) ==
    /\ instruction(t) = "release"
    /\ batch_lock' = 0
    /\ threads' = [threads EXCEPT ![t].pos = @ + 1]
    /\ UNCHANGED <<now, cbVars, jobVars, sseVars>>

\* a step that neither takes nor releases the lock
ThreadStep(t) ==
    /\ instruction(t) \in {"body", "save", "db", "work", "broadcast"}
    /\ threads' = [threads EXCEPT ![t].pos = @ + 1]
    /\ UNCHANGED <<now, cbVars, jobVars, sseVars, batch_lock>>

\* the method returns
ThreadReturn(t) ==
    /\ threads[t].op # "idle"
    /\ instruction(t) = "end"
    /\ threads' = [threads EXCEPT ![t] = [op |-> "idle", pos |-> 1]]
    /\ UNCHANGED <<now, cbVars, jobVars, sseVars, batch_lock>>

\* lines 724-744: a statement of the worker raises; a `with self.batch_lock` the
\* exception leaves releases the lock, then the except branch runs
WorkerRaise(t) ==
    /\ threads[t].op = "_batch_worker"
    /\ instruction(t) \in {"body", "work", "save", "broadcast"}
    /\ batch_lock' = IF batch_lock = t THEN 0 ELSE batch_lock
    /\ threads' = [threads EXCEPT ![t] = [op |-> "except", pos |-> 1]]
    /\ UNCHANGED <<now, cbVars, jobVars, sseVars>>

InitLock ==
    /\ InitCommon
    /\ fallback_len = NumModels
    /\ batch_history = <<>>
    /\ enabled = {}
    /\ configured = enabled
    /\ generator = "any"
    /\ starts_left = 0

NextLock ==
    \/ \E t \in Threads, op \in Methods : ThreadCall(t, op)
    \/ \E t \in Threads : LockAcquire(t)
    \/ \E t \in Threads : LockRelease(t)
    \/ \E t \in Threads : ThreadStep(t)
    \/ \E t \in Threads : ThreadReturn(t)
    \/ \E t \in Threads : WorkerRaise(t)

SpecLock == InitLock /\ [][NextLock]_vars

\* thread t has a step to take
can_step(t) ==
    \/ threads[t].op = "idle"
    \/ instruction(t) # "acquire"
    \/ batch_lock = 0

\* C39: no interleaving of start, stop, status, history, stuck check and worker
\* steps, the worker's except branch included, deadlocks on the registry lock: a
\* thread never requests the lock while it holds it, the holder of the lock is
\* never waiting, and so some thread can always take a step.
C39_NoLockDeadlock ==
    /\ \A t \in Threads : instruction(t) = "acquire" => batch_lock # t
    /\ batch_lock # 0 => can_step(batch_lock) /\ threads[batch_lock].op # "idle"
    /\ \E t \in Threads : can_step(t)

\* a stop_batch saves under the lock while the except branch of a worker and a
\* status request wait for it
C39_Witness ==
    \E t, u, v \in Threads :
        /\ batch_lock = t /\ threads[t].op = "stop_batch" /\ instruction(t) = "save"
        /\ threads[u].op = "except" /\ instruction(u) = "acquire"
        /\ threads[v].op = "get_batch_status" /\ instruction(v) = "acquire"

----------------------------------------------------------------------------
(* Claims about the targets of jobs that run side by side                  *)

\* C40: with several jobs running and all additions to the dataset coming from
\* jobs, the dataset never holds more samples than the largest target_count among
\* the started jobs.
C40_NoOvershoot ==
    \A a \in DOMAIN worker :
        (\A b \in DOMAIN worker : worker[b].target_count <= worker[a].target_count) =>
            dataset_count <= worker[a].target_count

====
